---- MODULE Spec2Model ----
(***************************************************************************)
(* Warehouse Portal (src/app.py): CSV upload into the 'Open SO' worksheet, *)
(* the dashboard / order-detail router, and document generation by writing *)
(* template worksheets and exporting them.                                  *)
(*                                                                         *)
(* Values.  A python str is a sequence of one-character strings.  A cell   *)
(* value is tagged with its python type: N(n) an int, S(s) a str, H(l) a   *)
(* column label (a str kept whole, because rows are addressed by it), and   *)
(* NoneV is None.  An optional value is a sequence of length 0 or 1.        *)
(***************************************************************************)
EXTENDS Integers, Sequences, FiniteSets, TLC

\* ------------------------------------------------------------------ values

N(n) == [t |-> "int", v |-> n]
S(s) == [t |-> "str", s |-> s]
H(l) == [t |-> "label", l |-> l]
NoneV == [t |-> "none"]
Blank == S(<<>>)

Nothing == <<>>
Some(x) == <<x>>

Min(a, b) == IF a < b THEN a ELSE b
Max(a, b) == IF a > b THEN a ELSE b

Range(seq) == {seq[i] : i \in 1..Len(seq)}

RECURSIVE Digits(_)
\* str(n) of a non-negative int: its decimal digits
Digits(n) ==
  LET d == <<"0", "1", "2", "3", "4", "5", "6", "7", "8", "9">>[(n % 10) + 1]
  IN IF n < 10 THEN <<d>> ELSE Digits(n \div 10) \o <<d>>

\* str(x) of a cell value
Str(x) ==
  CASE x.t = "int" -> Digits(x.v)
    [] x.t = "str" -> x.s
    [] x.t = "none" -> <<"N", "o", "n", "e">>

\* python truthiness of a value: None, "" and 0 are falsy
Truthy(x) ==
  CASE x.t = "int" -> x.v # 0
    [] x.t = "str" -> x.s # <<>>
    [] x.t = "none" -> FALSE

\* the slice text[:m]; a negative m counts from the end
SliceTo(text, m) ==
  IF m >= 0 THEN SubSeq(text, 1, Min(m, Len(text)))
  ELSE SubSeq(text, 1, Max(0, Len(text) + m))

Ellipsis == <<".", ".", ".">>

\* a truncation that cuts at max_len and appends nothing
truncate_text_cut(x, max_len) ==
  LET text == IF Truthy(x) THEN Str(x) ELSE <<>>
  IN IF Len(text) > max_len THEN SliceTo(text, max_len) ELSE text

truncate_text(x, max_len) ==
  LET text == IF Truthy(x) THEN Str(x) ELSE <<>>
  IN IF Len(text) > max_len THEN SliceTo(text, max_len) \o Ellipsis ELSE text

\* ------------------------------------------------------------ data frames

\* CSV_MAP, in the order of the dict: <<source header, canonical name>>
CSV_MAP == <<
  <<"Order Number", "order_num">>,
  <<"PO Number", "po_num">>,
  <<"CustomerName", "customer_name">>,
  <<"Item", "vendor_sku">>,
  <<"ItemDescription", "description">>,
  <<"OrderedQty", "ordered_qty">>,
  <<"Ship To Address 1", "address_1">>,
  <<"Ship To Address 2", "address_2">>,
  <<"Cust SKU", "customer_sku">>,
  <<"Match Data for Address", "city_state_zip">> >>

CsvKeys == {CSV_MAP[i][1] : i \in 1..Len(CSV_MAP)}
CsvValues == {CSV_MAP[i][2] : i \in 1..Len(CSV_MAP)}
CsvValueOf(k) == CSV_MAP[CHOOSE i \in 1..Len(CSV_MAP) : CSV_MAP[i][1] = k][2]

\* A header as the CSV file spells it: the label with `lead` blanks before it
\* and `trail` blanks after it.
Raw(lead, name, trail) == [lead |-> lead, name |-> name, trail |-> trail]

\* str.strip() of a header
Strip(h) == h.name

\* A data frame is [columns: labels, rows: tuples of cells aligned with them].
EmptyDF == [columns |-> <<>>, rows |-> <<>>]

\* df.empty
IsEmpty(df) == df.columns = <<>> \/ df.rows = <<>>

\* the positions of label l among the columns, ascending
RECURSIVE Positions(_, _, _)
Positions(cols, l, from) ==
  IF from > Len(cols) THEN <<>>
  ELSE (IF cols[from] = l THEN <<from>> ELSE <<>>) \o Positions(cols, l, from + 1)

RECURSIVE Flatten(_)
Flatten(seqs) == IF seqs = <<>> THEN <<>> ELSE Head(seqs) \o Flatten(Tail(seqs))

\* df[labels]: for each label, every column that carries it
SelectColumns(df, labels) ==
  LET idx == Flatten([k \in 1..Len(labels) |-> Positions(df.columns, labels[k], 1)])
  IN [columns |-> [k \in 1..Len(idx) |-> df.columns[idx[k]]],
      rows |-> [r \in 1..Len(df.rows) |-> [k \in 1..Len(idx) |-> df.rows[r][idx[k]]]]]

\* pd.read_csv followed by df.columns.str.strip()
ReadCsv(file) ==
  [columns |-> [i \in 1..Len(file.header) |-> Strip(file.header[i])], rows |-> file.rows]

\* df.rename(columns=rename_map), rename_map = the CSV_MAP entries whose key is a column
Rename(df) ==
  [df EXCEPT !.columns =
     [i \in 1..Len(df.columns) |->
        IF df.columns[i] \in CsvKeys THEN CsvValueOf(df.columns[i]) ELSE df.columns[i]]]

\* valid_cols: the canonical names, in CSV_MAP order, that are columns of df
ValidCols(df) ==
  LET all == [i \in 1..Len(CSV_MAP) |-> CSV_MAP[i][2]]
  IN SelectSeq(all, LAMBDA v : v \in Range(df.columns))

\* upload_interface, per file: strip, rename, select
RenameSelect(file) ==
  LET df == Rename(ReadCsv(file))
  IN SelectColumns(df, ValidCols(df))

\* pd.concat(all_dfs, ignore_index=True).fillna(""): the union of the columns in
\* order of first appearance, every frame's rows under it, "" where a frame has
\* no such column.  Frames whose columns differ are reindexed, which pandas
\* refuses (InvalidIndexError) when one of them repeats a label.
HasDuplicates(seq) == Cardinality(Range(seq)) # Len(seq)

RECURSIVE UnionColumns(_, _)
UnionColumns(dfs, acc) ==
  IF dfs = <<>> THEN acc
  ELSE UnionColumns(Tail(dfs),
                    acc \o SelectSeq(Head(dfs).columns, LAMBDA l : l \notin Range(acc)))

ConcatRaises(dfs) ==
  /\ \E i \in 1..Len(dfs) : dfs[i].columns # dfs[1].columns
  /\ \E i \in 1..Len(dfs) : HasDuplicates(dfs[i].columns)

Reindexed(df, cols) ==
  [r \in 1..Len(df.rows) |->
     [k \in 1..Len(cols) |->
        IF cols[k] \in Range(df.columns)
        THEN df.rows[r][Positions(df.columns, cols[k], 1)[1]]
        ELSE Blank]]

Concat(dfs) ==
  IF \A i \in 1..Len(dfs) : dfs[i].columns = dfs[1].columns
  THEN [columns |-> dfs[1].columns,
        rows |-> Flatten([i \in 1..Len(dfs) |-> dfs[i].rows])]
  ELSE LET cols == UnionColumns(dfs, <<>>)
       IN [columns |-> cols,
           rows |-> Flatten([i \in 1..Len(dfs) |-> Reindexed(dfs[i], cols)])]

\* -------------------------------------------------------------- worksheets

\* A worksheet's values are its rows from row 1, each from column A, as the
\* service returns them: without trailing blank cells and trailing blank rows.
RECURSIVE TrimRow(_)
TrimRow(row) ==
  IF row # <<>> /\ row[Len(row)] = Blank THEN TrimRow(SubSeq(row, 1, Len(row) - 1)) ELSE row

RECURSIVE TrimRows(_)
TrimRows(ws) ==
  IF ws # <<>> /\ ws[Len(ws)] = <<>> THEN TrimRows(SubSeq(ws, 1, Len(ws) - 1)) ELSE ws

Normalise(ws) == TrimRows([r \in 1..Len(ws) |-> TrimRow(ws[r])])

CellAt(ws, r, c) == IF r <= Len(ws) /\ c <= Len(ws[r]) THEN ws[r][c] ELSE Blank

\* ws.update(range_name="A<r0>", values=values): the cells under `values` are
\* overwritten, every other cell keeps its content
Update(ws, r0, values) ==
  LET last == Max(Len(ws), r0 - 1 + Len(values))
      old(r) == IF r <= Len(ws) THEN ws[r] ELSE <<>>
      new(r) == IF r >= r0 /\ r - r0 + 1 <= Len(values) THEN values[r - r0 + 1] ELSE <<>>
  IN Normalise([r \in 1..last |->
                  [c \in 1..Max(Len(old(r)), Len(new(r))) |->
                     IF c <= Len(new(r)) THEN new(r)[c] ELSE old(r)[c]]])

\* a clear that leaves the worksheet as it is
ClearNothing(ws) == ws

\* ws.clear()
Clear(ws) == <<>>

IsDigits(s) ==
  s # <<>> /\ \A i \in 1..Len(s) : s[i] \in {"0", "1", "2", "3", "4", "5", "6", "7", "8", "9"}

DigitValue(c) == CHOOSE d \in 0..9 : Digits(d) = <<c>>

RECURSIVE ParseInt(_)
ParseInt(s) ==
  IF s = <<>> THEN 0 ELSE 10 * ParseInt(SubSeq(s, 1, Len(s) - 1)) + DigitValue(s[Len(s)])

\* gspread's numericise: a cell that reads as an integer is returned as an int
Numericise(cell) == IF cell.t = "str" /\ IsDigits(cell.s) THEN N(ParseInt(cell.s)) ELSE cell

LabelOf(cell) == IF cell.t = "label" THEN cell.l ELSE ""

\* pd.DataFrame(worksheet.get_all_records()): row 1 holds the keys, every later
\* row is a record; no record gives a frame without columns.  A repeated key is
\* an exception in gspread.
GetAllRecordsRaises(ws) ==
  ws # <<>> /\ HasDuplicates([c \in 1..Len(ws[1]) |-> LabelOf(ws[1][c])])

GetAllRecords(ws) ==
  IF Len(ws) < 2 THEN EmptyDF
  ELSE LET keys == [c \in 1..Len(ws[1]) |-> LabelOf(ws[1][c])]
       IN [columns |-> keys,
           rows |-> [r \in 1..(Len(ws) - 1) |->
                       [c \in 1..Len(keys) |-> Numericise(CellAt(ws, r + 1, c))]]]

\* ---------------------------------------------------------- warehouse screen

HasCol(d, name) == name \in Range(d.columns)
\* the first column that carries the label
ColIdx(d, name) ==
  CHOOSE i \in 1..Len(d.columns) :
    d.columns[i] = name /\ \A j \in 1..(i - 1) : d.columns[j] # name
\* row[name] of a row of frame d
Get(d, row, name) == row[ColIdx(d, name)]

\* the characters of the data in code point order, for str comparison
CodeOrder ==
  <<".", "0", "1", "2", "3", "4", "5", "6", "7", "8", "9",
    "A", "B", "K", "P", "Q", "a", "b", "c", "m", "n", "s", "t", "x", "z">>
Ord(c) == CHOOSE i \in 1..Len(CodeOrder) : CodeOrder[i] = c

RECURSIVE StrLess(_, _)
StrLess(a, b) ==
  IF b = <<>> THEN FALSE
  ELSE IF a = <<>> THEN TRUE
  ELSE IF a[1] # b[1] THEN Ord(a[1]) < Ord(b[1])
  ELSE StrLess(Tail(a), Tail(b))

\* the order pandas sorts group keys in: ints by value and before strs
CellLess(a, b) ==
  IF a.t = "int" /\ b.t = "int" THEN a.v < b.v
  ELSE IF a.t = "int" THEN b.t # "int"
  ELSE IF b.t = "int" THEN FALSE
  ELSE StrLess(Str(a), Str(b))

KeyLess(k, l) ==
  \/ CellLess(k[1], l[1])
  \/ k[1] = l[1] /\ CellLess(k[2], l[2])
  \/ k[1] = l[1] /\ k[2] = l[2] /\ CellLess(k[3], l[3])

RECURSIVE SortKeys(_)
SortKeys(keys) ==
  IF keys = {} THEN <<>>
  ELSE LET least == CHOOSE k \in keys : \A l \in keys \ {k} : KeyLess(k, l)
       IN <<least>> \o SortKeys(keys \ {least})

RECURSIVE SumQty(_, _)
SumQty(d, rows) ==
  IF rows = <<>> THEN 0 ELSE Get(d, Head(rows), "ordered_qty").v + SumQty(d, Tail(rows))

DashboardColumns == {"order_num", "po_num", "customer_name", "vendor_sku", "ordered_qty"}

\* the dashboard raises: a column is missing (KeyError), or a quantity that is
\* no number is summed (TypeError)
DashboardRaises(d) ==
  \/ ~(DashboardColumns \subseteq Range(d.columns))
  \/ \E r \in 1..Len(d.rows) : Get(d, d.rows[r], "ordered_qty").t # "int"

\* the key of groupby(['order_num', 'po_num', 'customer_name'])
GroupKey(d, row) ==
  <<Get(d, row, "order_num"), Get(d, row, "po_num"), Get(d, row, "customer_name")>>

\* view_df.groupby(...).agg(count, sum).reset_index(): one row per key, keys sorted
Grouped(d) ==
  LET keys == SortKeys({GroupKey(d, d.rows[r]) : r \in 1..Len(d.rows)})
      of(k) == SelectSeq(d.rows, LAMBDA row : GroupKey(d, row) = k)
  IN [g \in 1..Len(keys) |->
        [order_num |-> keys[g][1], po_num |-> keys[g][2], customer_name |-> keys[g][3],
         Items |-> Len(of(keys[g])), TotalQty |-> SumQty(d, of(keys[g]))]]

Lower(c) ==
  CASE c = "A" -> "a" [] c = "B" -> "b" [] c = "K" -> "k" [] c = "P" -> "p"
    [] c = "Q" -> "q" [] OTHER -> c

\* str.contains(needle, case=False), for a needle of letters and digits
Contains(hay, needle) ==
  \E i \in 1..(Len(hay) - Len(needle) + 1) :
    \A j \in 1..Len(needle) : Lower(hay[i + j - 1]) = Lower(needle[j])

\* the rows of the dashboard table under the text filter
Filtered(g, filter_txt) ==
  IF filter_txt = <<>> THEN g
  ELSE SelectSeq(g, LAMBDA row :
         \/ Contains(Str(row.order_num), filter_txt)
         \/ Contains(Str(row.customer_name), filter_txt)
         \/ Contains(Str(row.po_num), filter_txt))

\* df[df['order_num'].astype(str) == str(order_id)]
OrderData(d, order_id) ==
  SelectSeq(d.rows, LAMBDA row : Str(Get(d, row, "order_num")) = order_id)

DetailColumns ==
  {"order_num", "po_num", "customer_name", "vendor_sku", "description", "ordered_qty",
   "customer_sku"}

\* edited_df: the order's lines with the SHIP QTY column, the ordered quantity
\* unless the user edited the row
ShipQty(d, rows, ed, i) ==
  IF i \in DOMAIN ed THEN N(ed[i]) ELSE Get(d, rows[i], "ordered_qty")

\* The individual-label loop stops with an exception at the first row whose
\* number_input is given a value below its min_value 1, or whose widget keys
\* (qty_<sku>_<order>) repeat those of an earlier row; 0 when it runs through.
LoopStop(d, rows, ed) ==
  LET bad(i) == \/ ShipQty(d, rows, ed, i).v < 1
                \/ \E j \in 1..(i - 1) :
                     Str(Get(d, rows[j], "vendor_sku")) = Str(Get(d, rows[i], "vendor_sku"))
  IN IF \E i \in 1..Len(rows) : bad(i)
     THEN CHOOSE i \in 1..Len(rows) : bad(i) /\ \A j \in 1..(i - 1) : ~bad(j)
     ELSE 0

\* One run of warehouse_interface over frame d with session_state.selected_order
\* = sel: the screen it ends on and the selected order it leaves.  An order
\* without lines resets the selection and reruns, which renders the dashboard.
RECURSIVE Render(_, _)
Render(d, sel) ==
  IF sel = Nothing
  THEN IF IsEmpty(d) THEN [screen |-> "dashboard", selected |-> Nothing, msgs |-> {"info"}]
       ELSE IF DashboardRaises(d)
            THEN [screen |-> "exception", selected |-> Nothing, msgs |-> {"exception"}]
            ELSE [screen |-> "dashboard", selected |-> Nothing, msgs |-> {}]
  ELSE IF ~HasCol(d, "order_num")
       THEN [screen |-> "exception", selected |-> sel, msgs |-> {"exception"}]
       ELSE IF OrderData(d, sel[1]) = <<>> THEN Render(d, Nothing)
       ELSE IF ~(DetailColumns \subseteq Range(d.columns))
            THEN [screen |-> "exception", selected |-> sel, msgs |-> {"exception"}]
            ELSE [screen |-> "detail", selected |-> sel, msgs |-> {}]

\* ------------------------------------------------------------------ bounds

MaxTextLen == 3      \* truncate_text: longest argument text
MaxLenArg == 3       \* truncate_text: largest max_len
MaxCols == 3         \* rename / select: most columns of a CSV file
MaxFiles == 2        \* upload: most files of one upload
MaxPrints == 1       \* document generations in one behaviour
MaxIdx == 4          \* the dashboard rows the user clicks
MaxEditRow == 1      \* the data editor rows the user edits
MaxQty == 2          \* the largest quantity typed into a label's number input
MaxLabelRow == 2     \* the rows of the label loop whose Print button is pressed
MaxSlips == 2        \* packing slip generations in one behaviour of SpecSlip
MaxRacePrints == 2   \* label prints in one behaviour of SpecRace

\* the numbers the handlers are written with
LabelDescLen == 55     \* the label's description is truncated at
SlipDescLen == 55      \* the packing slip's descriptions are truncated at
FirstLineRow == 19     \* the first row of the packing slip's line block
UnhideLastRow == 100   \* the last row made visible before the lines are written
ClearLastRow == 100    \* the last row of batch_clear(["B19:H100"])
HideLastRow == 150     \* the last row hidden below the lines

\* ---------------------------------------------------------------- variables

Sessions == {1, 2}

VARIABLES
  \* the spreadsheet service, shared by every session
  openSO,        \* the values of worksheet 'Open SO' of SOURCE_SHEET_ID
  itemLabel,     \* the cells of worksheet 'ItemLabel' of LABEL_TEMPLATE_ID
  palletLabel,   \* the cells of worksheet 'PalletLabel' of LABEL_TEMPLATE_ID
  slipHeader,    \* worksheet 'Template' of PACKING_SLIP_ID: the header cells
  slipBlock,     \* ... its line block: row number -> the cells from column B
  slipHidden,    \* ... its hidden rows
  \* the server process, shared by every session
  cache,         \* st.cache_data of load_data: Nothing, or the cached frame
  \* one browser session each
  selected_order,  \* st.session_state.selected_order: Nothing, or the order as a str
  screen,        \* what the last script run rendered: none, upload, dashboard, detail, exception
  df,            \* the frame load_data gave the last script run
  filter_txt,    \* the text of the dashboard's filter input
  edits,         \* the data editor's edits: row position -> ship quantity
  ps_pdf,        \* st.session_state['ps_pdf']
  plt_pdf,       \* st.session_state['plt_pdf']
  pdf_sku,       \* st.session_state['pdf_<sku>']: sku -> document
  pc,            \* where the session's running handler stands, "idle" between runs
  run,           \* the event and locals of the session's last script run, with its remote calls
  msgs,          \* what the session's last script run showed: success, error, info, exception
  handled,       \* document generations started so far
  \* calls of the pure helpers
  tt_text,       \* truncate_text: the argument text
  tt_max_len,    \* truncate_text: the argument max_len
  tt_result,     \* truncate_text: the returned str, Nothing before the call
  csv_file,      \* the CSV file handed to the rename / select step
  csv_kept       \* the data frame kept for it, Nothing before the step

varsTrunc == <<tt_text, tt_max_len, tt_result>>
varsRename == <<csv_file, csv_kept>>
varsPure == <<tt_text, tt_max_len, tt_result, csv_file, csv_kept>>
varsTemplates == <<itemLabel, palletLabel, slipHeader, slipBlock, slipHidden>>
varsUI == <<selected_order, screen, df, filter_txt, edits>>
varsPdf == <<ps_pdf, plt_pdf, pdf_sku>>

vars == <<openSO, itemLabel, palletLabel, slipHeader, slipBlock, slipHidden, cache,
          selected_order, screen, df, filter_txt, edits, ps_pdf, plt_pdf, pdf_sku,
          pc, run, msgs, handled, tt_text, tt_max_len, tt_result, csv_file, csv_kept>>

NoRun == [op |-> "none", calls |-> <<>>, failed |-> FALSE]

\* ------------------------------------------------------------------- data

\* One order line, as a CSV row under the ten source headers in CSV_MAP order.
Line(order, po, customer, sku, desc, qty, csku) ==
  <<N(order), N(po), S(customer), S(sku), S(desc), N(qty),
    S(<<"s", "t">>), Blank, S(csku), S(<<"c", "z">>)>>

FullHeader == [i \in 1..Len(CSV_MAP) |-> Raw(0, CSV_MAP[i][1], 0)]

LongDescription == [i \in 1..56 |-> "x"]

\* two orders; order 1 and order 12 both hold item P
FileSmall ==
  [header |-> FullHeader,
   rows |-> << Line(1, 7, <<"A", "b">>, <<"P">>, <<"a", "b">>, 2, <<"a">>),
               Line(1, 7, <<"A", "b">>, <<"Q">>, LongDescription, 1, <<"b">>),
               Line(12, 8, <<"B", "a">>, <<"P">>, <<"b">>, 3, <<"x">>) >>]

\* one order whose two lines carry different PO numbers
FileSplit ==
  [header |-> FullHeader,
   rows |-> << Line(2, 7, <<"A", "b">>, <<"P">>, <<"a">>, 1, <<"a">>),
               Line(2, 8, <<"A", "b">>, <<"Q">>, <<"b">>, 4, <<"b">>) >>]

\* files with other header sets: padded headers out of CSV_MAP order and a
\* column CSV_MAP does not know; a header that already is a canonical name; the
\* same header twice, once padded; no known header at all
FilePadded ==
  [header |-> <<Raw(1, "Item", 1), Raw(0, "Notes", 0), Raw(0, "Order Number", 2)>>,
   rows |-> << <<S(<<"P">>), S(<<"n">>), N(1)>>, <<S(<<"Q">>), S(<<"m">>), N(2)>> >>]

FileCanonical ==
  [header |-> <<Raw(0, "vendor_sku", 0), Raw(0, "PO Number", 0)>>,
   rows |-> << <<S(<<"P">>), N(7)>> >>]

FileTwice ==
  [header |-> <<Raw(0, "Item", 0), Raw(1, "Item", 0)>>,
   rows |-> << <<S(<<"P">>), S(<<"Q">>)>> >>]

FileUnknown ==
  [header |-> <<Raw(0, "Notes", 0)>>,
   rows |-> << <<S(<<"n">>)>> >>]

FileNoRows == [header |-> FullHeader, rows |-> <<>>]

\* one order that holds item P on two lines, with their own customer SKU,
\* description and quantity
FileRepeat ==
  [header |-> FullHeader,
   rows |-> << Line(5, 9, <<"B", "a">>, <<"P">>, <<"a">>, 2, <<"a">>),
               Line(5, 9, <<"B", "a">>, <<"P">>, <<"b">>, 1, <<"b">>) >>]

\* one order with one line more than rows 19..100 hold, every SKU its own
BigLines == ClearLastRow - FirstLineRow + 2
FileBig ==
  [header |-> FullHeader,
   rows |-> [i \in 1..BigLines |->
               Line(3, 9, <<"B", "a">>, <<"K">> \o Digits(i), <<"b">>, 1, <<"c">>)]]

RECURSIVE SeqsUpTo(_, _)
\* the sequences over S of length 0..n
SeqsUpTo(S_, n) ==
  IF n = 0 THEN {<<>>}
  ELSE LET shorter == SeqsUpTo(S_, n - 1)
       IN shorter \cup {Append(q, x) : q \in {y \in shorter : Len(y) = n - 1}, x \in S_}

\* the worksheet an upload of `files` leaves when every call succeeds
SheetOf(files) ==
  LET final == Concat([i \in 1..Len(files) |-> RenameSelect(files[i])])
  IN Update(Update(<<>>, 1, <<[k \in 1..Len(final.columns) |-> H(final.columns[k])]>>),
            2, final.rows)

\* ------------------------------------------------------- truncate_text calls

TruncInputs == {NoneV, N(0), N(12)} \cup {S(q) : q \in SeqsUpTo({"a", "b"}, MaxTextLen)}

IdleTrunc == tt_text = NoneV /\ tt_max_len = 0 /\ tt_result = Nothing
IdleRename == csv_file = [header |-> <<>>, rows |-> <<>>] /\ csv_kept = Nothing
BlankItemLabel ==
  [C3 |-> Blank, B5 |-> Blank, B7 |-> Blank, C11 |-> Blank, F7 |-> Blank, E6 |-> Blank,
   B9 |-> Blank]
BlankPalletLabel == [C3 |-> Blank, C5 |-> Blank, C6 |-> Blank, C7 |-> Blank, C9 |-> Blank]
BlankSlipHeader ==
  [B11 |-> Blank, B12 |-> Blank, B13 |-> Blank, B14 |-> Blank, H11 |-> Blank, H12 |-> Blank,
   H13 |-> Blank]

\* the templates as shipped: no field filled, no row hidden
IdleTemplates ==
  /\ itemLabel = BlankItemLabel
  /\ palletLabel = BlankPalletLabel
  /\ slipHeader = BlankSlipHeader
  /\ slipBlock = <<>>
  /\ slipHidden = {}

\* no session has run the script yet
IdleSessions ==
  /\ cache = Nothing
  /\ selected_order = [s \in Sessions |-> Nothing]
  /\ screen = [s \in Sessions |-> "none"]
  /\ df = [s \in Sessions |-> EmptyDF]
  /\ filter_txt = [s \in Sessions |-> <<>>]
  /\ edits = [s \in Sessions |-> <<>>]
  /\ ps_pdf = [s \in Sessions |-> Nothing]
  /\ plt_pdf = [s \in Sessions |-> Nothing]
  /\ pdf_sku = [s \in Sessions |-> <<>>]
  /\ pc = [s \in Sessions |-> "idle"]
  /\ run = [s \in Sessions |-> NoRun]
  /\ msgs = [s \in Sessions |-> {}]
  /\ handled = 0

InitTrunc ==
  /\ tt_text \in TruncInputs
  /\ tt_max_len \in (0 - 1)..MaxLenArg
  /\ tt_result = Nothing
  /\ IdleRename /\ IdleSessions /\ IdleTemplates
  /\ openSO = <<>>

CallTruncate ==
  /\ tt_result = Nothing
  /\ tt_result' = Some(truncate_text(tt_text, tt_max_len))
  /\ UNCHANGED <<tt_text, tt_max_len, varsRename, openSO, cache, varsTemplates, varsUI,
                  varsPdf, pc, run, msgs, handled>>

NextTrunc == CallTruncate

SpecTrunc == InitTrunc /\ [][NextTrunc]_vars

\* ------------------------------------------------------ rename / select step

RawHeaders ==
  {Raw(0, "Order Number", 0), Raw(0, "Item", 0), Raw(1, "Item", 1),
   Raw(0, "PO Number", 1), Raw(0, "Notes", 0), Raw(0, "vendor_sku", 0)}

\* the header rows of at most MaxCols headers, no header spelled twice alike
\* (pd.read_csv renames an exact repetition), with one row of cells
CsvFiles ==
  {[header |-> h, rows |-> << [i \in 1..Len(h) |-> N(i)] >>] :
     h \in {q \in SeqsUpTo(RawHeaders, MaxCols) : ~HasDuplicates(q)}}

InitRename ==
  /\ csv_file \in CsvFiles
  /\ csv_kept = Nothing
  /\ IdleTrunc /\ IdleSessions /\ IdleTemplates
  /\ openSO = <<>>

CallRenameSelect ==
  /\ csv_kept = Nothing
  /\ csv_kept' = Some(RenameSelect(csv_file))
  /\ UNCHANGED <<csv_file, varsTrunc, openSO, cache, varsTemplates, varsUI, varsPdf,
                  pc, run, msgs, handled>>

NextRename == CallRenameSelect

SpecRename == InitRename /\ [][NextRename]_vars

\* ------------------------------------------------------------------ upload

\* upload_interface, the button pressed with `files` chosen.  The remote calls
\* are, in order: 1 open_by_key, 2 worksheet, 3 clear, 4 update A1, 5 update A2;
\* raise_at names the call that raises (0: none does).  Every exception is
\* caught and shown with st.error.
upload_interface(s, files, raise_at) ==
  LET dfs == [i \in 1..Len(files) |-> RenameSelect(files[i])]
      raises == files # <<>> /\ ConcatRaises(dfs)
      final == Concat(dfs)
      made == IF files = <<>> \/ raises THEN 0
              ELSE IF raise_at = 0 THEN 5 ELSE raise_at
      done(k) == files # <<>> /\ ~raises /\ (raise_at = 0 \/ raise_at > k)
      ws1 == IF done(3) THEN Clear(openSO) ELSE openSO
      ws2 == IF done(4)
             THEN Update(ws1, 1, <<[k \in 1..Len(final.columns) |-> H(final.columns[k])]>>)
             ELSE ws1
      ws3 == IF done(5) THEN Update(ws2, 2, final.rows) ELSE ws2
  IN /\ pc[s] = "idle"
     /\ openSO' = ws3
     /\ run' = [run EXCEPT ![s] =
                  [op |-> "upload", files |-> files,
                   calls |-> SubSeq(<<"open_by_key", "worksheet", "clear", "update", "update">>,
                                    1, made),
                   failed |-> files # <<>> /\ ~done(5)]]
     /\ msgs' = [msgs EXCEPT ![s] =
                   IF files = <<>> THEN {}
                   ELSE IF done(5) THEN {"success"} ELSE {"error"}]
     /\ screen' = [screen EXCEPT ![s] = "upload"]
     /\ filter_txt' = [filter_txt EXCEPT ![s] = <<>>]
     /\ edits' = [edits EXCEPT ![s] = <<>>]
     /\ UNCHANGED <<varsPure, pc, cache, varsTemplates, selected_order, df, varsPdf,
                    handled>>

UploadFiles == {FileSmall, FilePadded, FileCanonical, FileTwice, FileUnknown, FileNoRows}

\* what 'Open SO' holds before the upload: nothing, the sheet of an earlier
\* upload, or what an earlier upload left when its last update raised
PriorSheets ==
  {<<>>, SheetOf(<<FileSmall, FileSplit>>), SheetOf(<<FilePadded>>),
   SheetOf(<<FileNoRows>>)}

InitUpload ==
  /\ openSO \in PriorSheets
  /\ IdleSessions /\ IdleTrunc /\ IdleRename /\ IdleTemplates

\* one press of the button, over each prior content
NextUpload ==
  /\ run[1].op = "none"
  /\ \E files \in SeqsUpTo(UploadFiles, MaxFiles), raise_at \in 0..5 :
       upload_interface(1, files, raise_at)

SpecUpload == InitUpload /\ [][NextUpload]_vars

\* ------------------------------------------------------------- script runs

\* load_data(): the cached frame while the cache holds one; else the records
\* of 'Open SO', or an empty frame when the read raises (ok: the service answers)
Fresh(ok) == IF ok /\ ~GetAllRecordsRaises(openSO) THEN GetAllRecords(openSO) ELSE EmptyDF
LoadData(ok) == IF cache # Nothing THEN cache[1] ELSE Fresh(ok)

\* The end of a run of warehouse_interface in session s over frame d, with the
\* selected order sel, the editor's edits ed and the filter text f.
Show(s, d, sel, ed, f) ==
  LET r == Render(d, sel)
      stop == IF r.screen = "detail" THEN LoopStop(d, OrderData(d, sel[1]), ed) ELSE 0
  IN /\ cache' = Some(d)
     /\ df' = [df EXCEPT ![s] = d]
     /\ selected_order' = [selected_order EXCEPT ![s] = r.selected]
     /\ screen' = [screen EXCEPT ![s] = r.screen]
     /\ edits' = [edits EXCEPT ![s] = IF r.screen = "detail" THEN ed ELSE <<>>]
     /\ filter_txt' = [filter_txt EXCEPT ![s] = IF r.screen = "dashboard" THEN f ELSE <<>>]
     /\ msgs' = [msgs EXCEPT ![s] = r.msgs \cup (IF stop # 0 THEN {"exception"} ELSE {})]

Event(name) == [op |-> name, calls |-> <<>>, failed |-> FALSE]

\* a run of the Warehouse Ops screen that no widget triggered (the page is
\* opened, or the menu comes back to it)
Rerun(s, ok) ==
  /\ pc[s] = "idle"
  /\ Show(s, LoadData(ok), selected_order[s], edits[s], filter_txt[s])
  /\ run' = [run EXCEPT ![s] = NoRun]
  /\ UNCHANGED <<varsPure, openSO, varsTemplates, varsPdf, pc, handled>>

\* the Refresh button: st.cache_data.clear() and st.rerun()
Refresh(s, ok) ==
  /\ pc[s] = "idle" /\ screen[s] = "dashboard"
  /\ Show(s, Fresh(ok), Nothing, <<>>, filter_txt[s])
  /\ run' = [run EXCEPT ![s] = Event("refresh")]
  /\ UNCHANGED <<varsPure, openSO, varsTemplates, varsPdf, pc, handled>>

\* the ttl of st.cache_data runs out
CacheExpire ==
  /\ cache # Nothing
  /\ cache' = Nothing
  /\ UNCHANGED <<varsPure, openSO, varsTemplates, varsUI, varsPdf, pc, run, msgs, handled>>

\* text typed into "Find Order..."
SetFilter(s, f, ok) ==
  /\ pc[s] = "idle" /\ screen[s] = "dashboard" /\ ~IsEmpty(df[s])
  /\ f # filter_txt[s]
  /\ Show(s, LoadData(ok), Nothing, <<>>, f)
  /\ run' = [run EXCEPT ![s] = Event("filter")]
  /\ UNCHANGED <<varsPure, openSO, varsTemplates, varsPdf, pc, handled>>

\* A click on row idx of the dashboard table as the session sees it.  The run
\* it triggers handles the selection when it shows that table again: it sets
\* selected_order to str(grouped.iloc[idx]['order_num']) and reruns.
SelectRow(s, idx, ok) ==
  LET shown == Filtered(Grouped(df[s]), filter_txt[s])
      d == LoadData(ok)
      same == d = df[s]
  IN /\ pc[s] = "idle" /\ screen[s] = "dashboard"
     /\ ~IsEmpty(df[s]) /\ ~DashboardRaises(df[s])
     /\ idx \in 1..Len(shown)
     /\ Show(s, d, IF same THEN Some(Str(shown[idx].order_num)) ELSE Nothing, <<>>,
             filter_txt[s])
     /\ run' = [run EXCEPT ![s] =
                  [op |-> "select", calls |-> <<>>, failed |-> FALSE,
                   clicked |-> shown[idx].order_num, same |-> same]]
     /\ UNCHANGED <<varsPure, openSO, varsTemplates, varsPdf, pc, handled>>

\* the BACK button of the order detail
Back(s, ok) ==
  LET d == LoadData(ok)
      r == Render(d, selected_order[s])
  IN /\ pc[s] = "idle" /\ screen[s] = "detail"
     /\ Show(s, d, IF r.screen = "detail" THEN Nothing ELSE selected_order[s], <<>>, <<>>)
     /\ run' = [run EXCEPT ![s] = Event("back")]
     /\ UNCHANGED <<varsPure, openSO, varsTemplates, varsPdf, pc, handled>>

\* the user edits SHIP QTY of row pos in the data editor
EditQty(s, pos, qty, ok) ==
  /\ pc[s] = "idle" /\ screen[s] = "detail"
  /\ pos \in 1..Len(OrderData(df[s], selected_order[s][1]))
  /\ Show(s, LoadData(ok), selected_order[s], (pos :> qty) @@ edits[s], <<>>)
  /\ run' = [run EXCEPT ![s] = Event("edit")]
  /\ UNCHANGED <<varsPure, openSO, varsTemplates, varsPdf, pc, handled>>

\* ------------------------------------------------------------- item labels

\* an uncaught exception ends the script run: the page shows the traceback
Raise(s, call) ==
  /\ pc' = [pc EXCEPT ![s] = "idle"]
  /\ run' = [run EXCEPT ![s].calls = Append(@, call), ![s].failed = TRUE]
  /\ msgs' = [msgs EXCEPT ![s] = @ \cup {"exception"}]

Called(s, call, next) ==
  /\ pc' = [pc EXCEPT ![s] = next]
  /\ run' = [run EXCEPT ![s].calls = Append(@, call)]
  /\ UNCHANGED msgs

\* the `updates` of generate_single_label_pdf
LabelCells(item_row, label_qty) ==
  [C3 |-> S(Str(item_row.customer_sku)),
   B5 |-> S(truncate_text(item_row.description, LabelDescLen)),
   B7 |-> S(Str(item_row.vendor_sku)),
   C11 |-> S(Str(item_row.po_num)),
   F7 |-> N(label_qty),
   E6 |-> S(Str(item_row.order_num)),
   B9 |-> S(Str(item_row.customer_name))]

\* row.get(name, ''): the field, '' when the frame has no such column
GetOr(d, row, name) == IF HasCol(d, name) THEN Get(d, row, name) ELSE Blank

\* a row of the frame as the Series the handlers read fields from with .get
AsRecord(d, row) ==
  [order_num |-> GetOr(d, row, "order_num"), po_num |-> GetOr(d, row, "po_num"),
   customer_name |-> GetOr(d, row, "customer_name"),
   vendor_sku |-> GetOr(d, row, "vendor_sku"),
   description |-> GetOr(d, row, "description"),
   ordered_qty |-> GetOr(d, row, "ordered_qty"),
   customer_sku |-> GetOr(d, row, "customer_sku"),
   address_1 |-> GetOr(d, row, "address_1"), address_2 |-> GetOr(d, row, "address_2"),
   city_state_zip |-> GetOr(d, row, "city_state_zip")]

\* order_data[order_data['vendor_sku'].astype(str) == str(sku)].iloc[0]
FirstWithSku(d, rows, sku) ==
  rows[CHOOSE i \in 1..Len(rows) :
         /\ Str(Get(d, rows[i], "vendor_sku")) = Str(sku)
         /\ \A j \in 1..(i - 1) : Str(Get(d, rows[j], "vendor_sku")) # Str(sku)]

\* The Print button of row pos, with qty_val in the row's number input: the
\* run renders the detail down to that row and calls generate_single_label_pdf.
PrintLabel(s, pos, qty_val, ok) ==
  LET d == LoadData(ok)
      sel == selected_order[s]
      rows == OrderData(d, sel[1])
      stop == LoopStop(d, rows, edits[s])
      sku == Get(d, rows[pos], "vendor_sku")
  IN /\ pc[s] = "idle" /\ screen[s] = "detail"
     /\ Render(d, sel).screen = "detail"
     /\ pos \in 1..Len(rows) /\ (stop = 0 \/ pos < stop)
     /\ cache' = Some(d)
     /\ df' = [df EXCEPT ![s] = d]
     /\ msgs' = [msgs EXCEPT ![s] = {}]
     /\ handled' = handled + 1
     /\ pc' = [pc EXCEPT ![s] = "label_open"]
     /\ run' = [run EXCEPT ![s] =
                  [op |-> "label", calls |-> <<>>, failed |-> FALSE, order |-> sel[1],
                   sku |-> Str(sku), item_row |-> AsRecord(d, FirstWithSku(d, rows, sku)),
                   qty |-> qty_val, stop |-> stop, pos |-> pos]]
     /\ UNCHANGED <<varsPure, openSO, varsTemplates, selected_order, screen, filter_txt, edits,
                    varsPdf>>

\* items_to_process of PRINT ALL LABELS: per line of edited_df with a ship
\* quantity above 0, the first line of order_data with its SKU, and the quantity
BatchItems(d, rows, ed) ==
  LET shipped == SelectSeq([i \in 1..Len(rows) |-> i],
                           LAMBDA i : ShipQty(d, rows, ed, i).v > 0)
  IN [k \in 1..Len(shipped) |->
        [item_row |->
           AsRecord(d, FirstWithSku(d, rows, Get(d, rows[shipped[k]], "vendor_sku"))),
         qty |-> ShipQty(d, rows, ed, shipped[k]).v]]

\* The PRINT ALL LABELS button, which stands above the individual-label loop.
\* It calls generate_single_label_pdf item by item; without items the empty
\* document is ready at once.
PrintAll(s, ok) ==
  LET d == LoadData(ok)
      sel == selected_order[s]
      rows == OrderData(d, sel[1])
      stop == LoopStop(d, rows, edits[s])
      items == BatchItems(d, rows, edits[s])
      begun == [op |-> "batch", calls |-> <<>>, failed |-> FALSE, order |-> sel[1],
                stop |-> stop, pages |-> <<>>]
  IN /\ pc[s] = "idle" /\ screen[s] = "detail"
     /\ Render(d, sel).screen = "detail"
     /\ cache' = Some(d)
     /\ df' = [df EXCEPT ![s] = d]
     /\ handled' = handled + 1
     /\ IF items = <<>>
        THEN /\ pc' = pc
             /\ run' = [run EXCEPT ![s] = begun @@ [todo |-> <<>>]]
             /\ msgs' = [msgs EXCEPT ![s] =
                           {"success"} \cup (IF stop # 0 THEN {"exception"} ELSE {})]
        ELSE /\ pc' = [pc EXCEPT ![s] = "label_open"]
             /\ run' = [run EXCEPT ![s] =
                          begun @@ [item_row |-> items[1].item_row, qty |-> items[1].qty,
                                    todo |-> Tail(items)]]
             /\ msgs' = [msgs EXCEPT ![s] = {}]
     /\ UNCHANGED <<varsPure, openSO, varsTemplates, selected_order, screen, filter_txt,
                    edits, varsPdf>>

\* client.open_by_key(LABEL_TEMPLATE_ID)
LabelOpen(s, raises) ==
  /\ pc[s] = "label_open"
  /\ IF raises THEN Raise(s, "open_by_key") ELSE Called(s, "open_by_key", "label_worksheet")
  /\ UNCHANGED <<varsPure, openSO, cache, varsTemplates, varsUI, varsPdf, handled>>

\* lbl_sh.worksheet("ItemLabel")
LabelWorksheet(s, raises) ==
  /\ pc[s] = "label_worksheet"
  /\ IF raises THEN Raise(s, "worksheet") ELSE Called(s, "worksheet", "label_update")
  /\ UNCHANGED <<varsPure, openSO, cache, varsTemplates, varsUI, varsPdf, handled>>

\* lbl_ws.batch_update(updates)
LabelUpdate(s, raises) ==
  /\ pc[s] = "label_update"
  /\ IF raises
     THEN Raise(s, "batch_update") /\ UNCHANGED itemLabel
     ELSE /\ Called(s, "batch_update", "label_sleep")
          /\ itemLabel' = LabelCells(run[s].item_row, run[s].qty)
  /\ UNCHANGED <<varsPure, openSO, cache, palletLabel, slipHeader, slipBlock, slipHidden, varsUI,
                 varsPdf, handled>>

\* time.sleep(0.8)
LabelSleep(s) ==
  /\ pc[s] = "label_sleep"
  /\ Called(s, "sleep", "label_export")
  /\ UNCHANGED <<varsPure, openSO, cache, varsTemplates, varsUI, varsPdf, handled>>

\* an export that gives each session the label it wrote itself
OwnLabelPage(s) == LabelCells(run[s].item_row, run[s].qty)

\* what the export endpoint renders for the ItemLabel tab: the cells it holds
ExportedLabelPage(s) == itemLabel

\* A document: the pages it holds, and the order of the detail view whose
\* handler produced it.
Pdf(order, pages) == [order |-> order, pages |-> pages]

\* export_sheet_to_pdf for the label, and what the caller does with the page
\* (none when the status is not 200).  The Print handler merges it and stores
\* the document under pdf_<sku>; the batch loop adds it to its merger and goes
\* on.  outcome: 200, other (another status), raise.
LabelExport(s, outcome) ==
  /\ pc[s] = "label_export"
  /\ IF outcome = "raise"
     THEN Raise(s, "export") /\ UNCHANGED pdf_sku
     ELSE IF run[s].op = "batch"
     THEN /\ pc' = [pc EXCEPT ![s] = "batch_sleep"]
          /\ run' = [run EXCEPT ![s].calls = Append(@, "export"),
                                ![s].failed = @ \/ outcome # "200",
                                ![s].pages = IF outcome = "200"
                                             THEN Append(@, ExportedLabelPage(s)) ELSE @]
          /\ UNCHANGED <<msgs, pdf_sku>>
     ELSE /\ pc' = [pc EXCEPT ![s] = "idle"]
          /\ run' = [run EXCEPT ![s].calls = Append(@, "export"),
                                ![s].failed = outcome # "200"]
          /\ pdf_sku' = [pdf_sku EXCEPT ![s] =
                           (run[s].sku :>
                              Pdf(run[s].order,
                                  IF outcome = "200" THEN <<ExportedLabelPage(s)>> ELSE <<>>))
                           @@ @]
          /\ msgs' = [msgs EXCEPT ![s] = IF run[s].stop # 0 THEN {"exception"} ELSE {}]
  /\ UNCHANGED <<varsPure, openSO, cache, varsTemplates, varsUI, ps_pdf, plt_pdf, handled>>

\* time.sleep(3) of the batch loop, then the next item, or after the last one
\* the merged document, "Batch ready!" and the rest of the run: the
\* individual-label loop
BatchSleep(s) ==
  /\ pc[s] = "batch_sleep"
  /\ IF run[s].todo = <<>>
     THEN /\ pc' = [pc EXCEPT ![s] = "idle"]
          /\ run' = [run EXCEPT ![s].calls = Append(@, "sleep")]
          /\ msgs' = [msgs EXCEPT ![s] =
                        {"success"} \cup (IF run[s].stop # 0 THEN {"exception"} ELSE {})]
     ELSE /\ pc' = [pc EXCEPT ![s] = "label_open"]
          /\ run' = [run EXCEPT ![s].calls = Append(@, "sleep"),
                                ![s].item_row = Head(run[s].todo).item_row,
                                ![s].qty = Head(run[s].todo).qty,
                                ![s].todo = Tail(@)]
          /\ UNCHANGED msgs
  /\ UNCHANGED <<varsPure, openSO, cache, varsTemplates, varsUI, varsPdf, handled>>

\* ------------------------------------------------------------ packing slip

\* set_rows_visibility(spreadsheet, worksheet_id, start_row, end_row, hide)
set_rows_visibility(hidden, start_row, end_row, hide) ==
  IF hide THEN hidden \cup (start_row..end_row) ELSE hidden \ (start_row..end_row)

\* the `rows` of the packing slip: one per line of edited_df with a ship
\* quantity above 0, the customer SKU looked up by vendor SKU in order_data
SlipLines(d, rows, ed) ==
  LET csku(i) ==
        LET first == CHOOSE k \in 1..Len(rows) :
                       /\ Get(d, rows[k], "vendor_sku") = Get(d, rows[i], "vendor_sku")
                       /\ \A j \in 1..(k - 1) :
                            Get(d, rows[j], "vendor_sku") # Get(d, rows[i], "vendor_sku")
        IN Get(d, rows[first], "customer_sku")
      line(i) == << S(Str(csku(i))),
                    S(Str(Get(d, rows[i], "vendor_sku"))),
                    N(Get(d, rows[i], "ordered_qty").v),
                    N(ShipQty(d, rows, ed, i).v),
                    S(truncate_text(Get(d, rows[i], "description"), SlipDescLen)) >>
      final_items == SelectSeq([i \in 1..Len(rows) |-> i],
                               LAMBDA i : ShipQty(d, rows, ed, i).v > 0)
  IN [k \in 1..Len(final_items) |-> line(final_items[k])]

\* The Packing Slip button, with the ship method chosen in the radio.  The tab
\* is rendered only when the label loop above it ran through.
PackingSlip(s, method, ok) ==
  LET d == LoadData(ok)
      sel == selected_order[s]
      rows == OrderData(d, sel[1])
  IN /\ pc[s] = "idle" /\ screen[s] = "detail"
     /\ Render(d, sel).screen = "detail"
     /\ LoopStop(d, rows, edits[s]) = 0
     /\ cache' = Some(d)
     /\ df' = [df EXCEPT ![s] = d]
     /\ msgs' = [msgs EXCEPT ![s] = {}]
     /\ handled' = handled + 1
     /\ pc' = [pc EXCEPT ![s] = "slip_open"]
     /\ run' = [run EXCEPT ![s] =
                  [op |-> "slip", calls |-> <<>>, failed |-> FALSE, order |-> sel[1],
                   header |-> AsRecord(d, rows[1]), method |-> method,
                   lines |-> SlipLines(d, rows, edits[s])]]
     /\ UNCHANGED <<varsPure, openSO, varsTemplates, selected_order, screen, filter_txt, edits,
                    varsPdf>>

\* client.open_by_key(PACKING_SLIP_ID)
SlipOpen(s, raises) ==
  /\ pc[s] = "slip_open"
  /\ IF raises THEN Raise(s, "open_by_key") ELSE Called(s, "open_by_key", "slip_worksheet")
  /\ UNCHANGED <<varsPure, openSO, cache, varsTemplates, varsUI, varsPdf, handled>>

\* ps_sh.worksheet("Template")
SlipWorksheet(s, raises) ==
  /\ pc[s] = "slip_worksheet"
  /\ IF raises THEN Raise(s, "worksheet") ELSE Called(s, "worksheet", "slip_unhide")
  /\ UNCHANGED <<varsPure, openSO, cache, varsTemplates, varsUI, varsPdf, handled>>

\* set_rows_visibility(ps_sh, ps_ws.id, 19, 100, hide=False)
SlipUnhide(s, raises) ==
  /\ pc[s] = "slip_unhide"
  /\ IF raises
     THEN Raise(s, "set_rows_visibility") /\ UNCHANGED slipHidden
     ELSE /\ Called(s, "set_rows_visibility", "slip_header")
          /\ slipHidden' = set_rows_visibility(slipHidden, FirstLineRow, UnhideLastRow, FALSE)
  /\ UNCHANGED <<varsPure, openSO, cache, itemLabel, palletLabel, slipHeader, slipBlock, varsUI,
                 varsPdf, handled>>

\* ps_ws.batch_update(updates): the header cells
SlipHeaderUpdate(s, raises) ==
  /\ pc[s] = "slip_header"
  /\ IF raises
     THEN Raise(s, "batch_update") /\ UNCHANGED slipHeader
     ELSE /\ Called(s, "batch_update", "slip_clear")
          /\ slipHeader' =
               [B11 |-> S(Str(run[s].header.customer_name)),
                B12 |-> S(Str(run[s].header.address_1)),
                B13 |-> S(Str(run[s].header.address_2)),
                B14 |-> S(Str(run[s].header.city_state_zip)),
                H11 |-> S(Str(run[s].header.order_num)),
                H12 |-> S(Str(run[s].header.po_num)),
                H13 |-> S(run[s].method)]
  /\ UNCHANGED <<varsPure, openSO, cache, itemLabel, palletLabel, slipBlock, slipHidden, varsUI,
                 varsPdf, handled>>

\* the rows batch_clear(["B19:H100"]) leaves filled
ClearedBlock(block) ==
  [r \in (DOMAIN block) \ (FirstLineRow..ClearLastRow) |-> block[r]]

\* ps_ws.batch_clear(["B19:H100"]); without lines the update below is skipped
SlipClear(s, raises) ==
  /\ pc[s] = "slip_clear"
  /\ IF raises
     THEN Raise(s, "batch_clear") /\ UNCHANGED slipBlock
     ELSE /\ Called(s, "batch_clear",
                    IF run[s].lines = <<>> THEN "slip_hide" ELSE "slip_rows")
          /\ slipBlock' = ClearedBlock(slipBlock)
  /\ UNCHANGED <<varsPure, openSO, cache, itemLabel, palletLabel, slipHeader, slipHidden, varsUI,
                 varsPdf, handled>>

\* ps_ws.update(range_name="B19", values=rows)
SlipRows(s, raises) ==
  LET n == Len(run[s].lines)
      written == FirstLineRow..(FirstLineRow + n - 1)
  IN /\ pc[s] = "slip_rows"
     /\ IF raises
        THEN Raise(s, "update") /\ UNCHANGED slipBlock
        ELSE /\ Called(s, "update", "slip_hide")
             /\ slipBlock' =
                  [r \in (DOMAIN slipBlock) \cup written |->
                     IF r \in written THEN run[s].lines[r - FirstLineRow + 1]
                     ELSE slipBlock[r]]
     /\ UNCHANGED <<varsPure, openSO, cache, itemLabel, palletLabel, slipHeader, slipHidden, varsUI,
                    varsPdf, handled>>

\* set_rows_visibility(ps_sh, ps_ws.id, 19 + num_lines, 150, hide=True); the
\* service rejects a range that ends before it starts
SlipHide(s, raises) ==
  LET start == FirstLineRow + Len(run[s].lines)
  IN /\ pc[s] = "slip_hide"
     /\ IF raises \/ start > HideLastRow
        THEN Raise(s, "set_rows_visibility") /\ UNCHANGED slipHidden
        ELSE /\ Called(s, "set_rows_visibility", "slip_export")
             /\ slipHidden' = set_rows_visibility(slipHidden, start, HideLastRow, TRUE)
     /\ UNCHANGED <<varsPure, openSO, cache, itemLabel, palletLabel, slipHeader, slipBlock, varsUI,
                    varsPdf, handled>>

\* what the export endpoint renders for the Template tab: the header and the
\* rows of the block that are not hidden
ExportedSlipPage ==
  [header |-> slipHeader,
   lines |-> [r \in (DOMAIN slipBlock) \ slipHidden |-> slipBlock[r]]]

\* export_sheet_to_pdf(PACKING_SLIP_ID, ps_ws.id, creds); the bytes are kept
\* under ps_pdf when there are any
SlipExport(s, outcome) ==
  /\ pc[s] = "slip_export"
  /\ IF outcome = "raise"
     THEN Raise(s, "export") /\ UNCHANGED ps_pdf
     ELSE /\ pc' = [pc EXCEPT ![s] = "idle"]
          /\ run' = [run EXCEPT ![s].calls = Append(@, "export"),
                                ![s].failed = outcome # "200"]
          /\ ps_pdf' = [ps_pdf EXCEPT ![s] =
                          IF outcome = "200" THEN Some(Pdf(run[s].order, <<ExportedSlipPage>>))
                          ELSE @]
          /\ UNCHANGED msgs
  /\ UNCHANGED <<varsPure, openSO, cache, varsTemplates, varsUI, plt_pdf, pdf_sku, handled>>

\* ------------------------------------------------------------ pallet label

\* The Pallet Label button, shown when the ship method is LTL.
PalletLabel(s, ok) ==
  LET d == LoadData(ok)
      sel == selected_order[s]
      rows == OrderData(d, sel[1])
  IN /\ pc[s] = "idle" /\ screen[s] = "detail"
     /\ Render(d, sel).screen = "detail"
     /\ LoopStop(d, rows, edits[s]) = 0
     /\ cache' = Some(d)
     /\ df' = [df EXCEPT ![s] = d]
     /\ msgs' = [msgs EXCEPT ![s] = {}]
     /\ handled' = handled + 1
     /\ pc' = [pc EXCEPT ![s] = "pallet_open"]
     /\ run' = [run EXCEPT ![s] =
                  [op |-> "pallet", calls |-> <<>>, failed |-> FALSE, order |-> sel[1],
                   header |-> AsRecord(d, rows[1])]]
     /\ UNCHANGED <<varsPure, openSO, varsTemplates, selected_order, screen, filter_txt, edits,
                    varsPdf>>

\* client.open_by_key(LABEL_TEMPLATE_ID)
PalletOpen(s, raises) ==
  /\ pc[s] = "pallet_open"
  /\ IF raises THEN Raise(s, "open_by_key") ELSE Called(s, "open_by_key", "pallet_worksheet")
  /\ UNCHANGED <<varsPure, openSO, cache, varsTemplates, varsUI, varsPdf, handled>>

\* lbl_sh.worksheet("PalletLabel"); a failure is caught and shown with st.error
PalletWorksheet(s, raises) ==
  /\ pc[s] = "pallet_worksheet"
  /\ IF raises
     THEN /\ pc' = [pc EXCEPT ![s] = "idle"]
          /\ run' = [run EXCEPT ![s].calls = Append(@, "worksheet"), ![s].failed = TRUE]
          /\ msgs' = [msgs EXCEPT ![s] = @ \cup {"error"}]
     ELSE Called(s, "worksheet", "pallet_update")
  /\ UNCHANGED <<varsPure, openSO, cache, varsTemplates, varsUI, varsPdf, handled>>

\* lbl_ws.batch_update(updates)
PalletUpdate(s, raises) ==
  /\ pc[s] = "pallet_update"
  /\ IF raises
     THEN Raise(s, "batch_update") /\ UNCHANGED palletLabel
     ELSE /\ Called(s, "batch_update", "pallet_sleep")
          /\ palletLabel' =
               [C3 |-> S(Str(run[s].header.po_num)),
                C5 |-> S(Str(run[s].header.address_1)),
                C6 |-> S(Str(run[s].header.address_2)),
                C7 |-> S(Str(run[s].header.city_state_zip)),
                C9 |-> S(Str(run[s].header.order_num))]
  /\ UNCHANGED <<varsPure, openSO, cache, itemLabel, slipHeader, slipBlock, slipHidden, varsUI,
                 varsPdf, handled>>

\* time.sleep(1.0)
PalletSleep(s) ==
  /\ pc[s] = "pallet_sleep"
  /\ Called(s, "sleep", "pallet_export")
  /\ UNCHANGED <<varsPure, openSO, cache, varsTemplates, varsUI, varsPdf, handled>>

\* export_sheet_to_pdf for the pallet label; the bytes are kept under plt_pdf
\* when there are any
PalletExport(s, outcome) ==
  /\ pc[s] = "pallet_export"
  /\ IF outcome = "raise"
     THEN Raise(s, "export") /\ UNCHANGED plt_pdf
     ELSE /\ pc' = [pc EXCEPT ![s] = "idle"]
          /\ run' = [run EXCEPT ![s].calls = Append(@, "export"),
                                ![s].failed = outcome # "200"]
          /\ plt_pdf' = [plt_pdf EXCEPT ![s] =
                           IF outcome = "200" THEN Some(Pdf(run[s].order, <<palletLabel>>))
                           ELSE @]
          /\ UNCHANGED msgs
  /\ UNCHANGED <<varsPure, openSO, cache, varsTemplates, varsUI, ps_pdf, pdf_sku, handled>>

\* ------------------------------------------------------------ specifications

EditQtys == {0, 5}
Filters == {<<>>, <<"b", "a">>}
Methods == {<<"S">>, <<"L", "T", "L">>}
Outcomes == {"200", "other", "raise"}

\* one session at the Warehouse Ops screen, over the sheet of an earlier upload
Init ==
  /\ openSO = SheetOf(<<FileSmall, FileSplit>>)
  /\ IdleSessions /\ IdleTemplates /\ IdleTrunc /\ IdleRename

UINext(s) ==
  \/ \E ok \in BOOLEAN : Rerun(s, ok)
  \/ Refresh(s, TRUE)
  \/ \E f \in Filters : SetFilter(s, f, TRUE)
  \/ \E idx \in 1..MaxIdx : SelectRow(s, idx, TRUE)
  \/ Back(s, TRUE)
  \/ \E pos \in 1..MaxEditRow, qty \in EditQtys : EditQty(s, pos, qty, TRUE)

LabelSteps(s) ==
  \/ \E raises \in BOOLEAN : LabelOpen(s, raises)
  \/ \E raises \in BOOLEAN : LabelWorksheet(s, raises)
  \/ \E raises \in BOOLEAN : LabelUpdate(s, raises)
  \/ LabelSleep(s)
  \/ \E outcome \in Outcomes : LabelExport(s, outcome)

SlipSteps(s) ==
  \/ \E raises \in BOOLEAN : SlipOpen(s, raises)
  \/ \E raises \in BOOLEAN : SlipWorksheet(s, raises)
  \/ \E raises \in BOOLEAN : SlipUnhide(s, raises)
  \/ \E raises \in BOOLEAN : SlipHeaderUpdate(s, raises)
  \/ \E raises \in BOOLEAN : SlipClear(s, raises)
  \/ \E raises \in BOOLEAN : SlipRows(s, raises)
  \/ \E raises \in BOOLEAN : SlipHide(s, raises)
  \/ \E outcome \in Outcomes : SlipExport(s, outcome)

PalletSteps(s) ==
  \/ \E raises \in BOOLEAN : PalletOpen(s, raises)
  \/ \E raises \in BOOLEAN : PalletWorksheet(s, raises)
  \/ \E raises \in BOOLEAN : PalletUpdate(s, raises)
  \/ PalletSleep(s)
  \/ \E outcome \in Outcomes : PalletExport(s, outcome)

Next ==
  \/ CacheExpire
  \/ UINext(1)
  \/ \E pos \in 1..MaxLabelRow, qty_val \in 1..MaxQty :
       handled < MaxPrints /\ PrintLabel(1, pos, qty_val, TRUE)
  \/ handled < MaxPrints /\ PrintAll(1, TRUE)
  \/ \E method \in Methods : handled < MaxPrints /\ PackingSlip(1, method, TRUE)
  \/ handled < MaxPrints /\ PalletLabel(1, TRUE)
  \/ LabelSteps(1)
  \/ BatchSleep(1)
  \/ SlipSteps(1)
  \/ PalletSteps(1)

Spec == Init /\ [][Next]_vars

\* One session generating packing slips, every remote call succeeding, over a
\* sheet that holds a small order and an order with more lines than the cleared
\* range has rows.
InitSlip ==
  /\ openSO = SheetOf(<<FileSmall, FileBig>>)
  /\ IdleSessions /\ IdleTemplates /\ IdleTrunc /\ IdleRename

NextSlip ==
  \/ Rerun(1, TRUE)
  \/ \E idx \in 1..MaxIdx : SelectRow(1, idx, TRUE)
  \/ Back(1, TRUE)
  \/ \E pos \in 1..MaxEditRow, qty \in EditQtys : EditQty(1, pos, qty, TRUE)
  \/ \E method \in Methods : handled < MaxSlips /\ PackingSlip(1, method, TRUE)
  \/ SlipOpen(1, FALSE)
  \/ SlipWorksheet(1, FALSE)
  \/ SlipUnhide(1, FALSE)
  \/ SlipHeaderUpdate(1, FALSE)
  \/ SlipClear(1, FALSE)
  \/ SlipRows(1, FALSE)
  \/ SlipHide(1, FALSE)
  \/ SlipExport(1, "200")

SpecSlip == InitSlip /\ [][NextSlip]_vars

\* Two sessions printing item labels against the one 'ItemLabel' worksheet, no
\* call raising; the steps of their handlers interleave.
NextRace ==
  \E s \in Sessions :
    \/ Rerun(s, TRUE)
    \/ \E idx \in 1..MaxIdx : SelectRow(s, idx, TRUE)
    \/ \E pos \in 1..MaxLabelRow :
         handled < MaxRacePrints /\ PrintLabel(s, pos, 1, TRUE)
    \/ LabelOpen(s, FALSE)
    \/ LabelWorksheet(s, FALSE)
    \/ LabelUpdate(s, FALSE)
    \/ LabelSleep(s)
    \/ \E outcome \in {"200", "other"} : LabelExport(s, outcome)

SpecRace == Init /\ [][NextRace]_vars

\* One session printing labels, one by one with the number input left at the
\* ship quantity it starts with, or all at once, no call raising, over a sheet
\* with an order that holds the same item on two lines.
InitBatch ==
  /\ openSO = SheetOf(<<FileSmall, FileRepeat>>)
  /\ IdleSessions /\ IdleTemplates /\ IdleTrunc /\ IdleRename

NextBatch ==
  \/ Rerun(1, TRUE)
  \/ \E idx \in 1..MaxIdx : SelectRow(1, idx, TRUE)
  \/ Back(1, TRUE)
  \/ \E pos \in 1..MaxEditRow, qty \in EditQtys : EditQty(1, pos, qty, TRUE)
  \/ \E pos \in 1..MaxLabelRow :
       /\ handled < MaxPrints /\ pc[1] = "idle" /\ screen[1] = "detail"
       /\ pos <= Len(OrderData(df[1], selected_order[1][1]))
       /\ PrintLabel(1, pos,
                     ShipQty(df[1], OrderData(df[1], selected_order[1][1]), edits[1], pos).v,
                     TRUE)
  \/ handled < MaxPrints /\ PrintAll(1, TRUE)
  \/ LabelOpen(1, FALSE)
  \/ LabelWorksheet(1, FALSE)
  \/ LabelUpdate(1, FALSE)
  \/ LabelSleep(1)
  \/ \E outcome \in {"200", "other"} : LabelExport(1, outcome)
  \/ BatchSleep(1)

SpecBatch == InitBatch /\ [][NextBatch]_vars

\* One session that goes between the two screens of the menu: it uploads over
\* the sheet of an earlier upload and looks at the Warehouse Ops screen, every
\* read of the sheet succeeding.
ReloadFiles == {FileRepeat, FileSplit}

NextReload ==
  \/ Rerun(1, TRUE)
  \/ Refresh(1, TRUE)
  \/ CacheExpire
  \/ \E idx \in 1..MaxIdx : SelectRow(1, idx, TRUE)
  \/ Back(1, TRUE)
  \/ \E f \in ReloadFiles, raise_at \in 0..5 : upload_interface(1, <<f>>, raise_at)

SpecReload == Init /\ [][NextReload]_vars

\* ------------------------------------------------------------------ claims

\* The canonical name a CSV column is kept under, "" when it is dropped.
KeptLabel(h) ==
  IF Strip(h) \in CsvKeys THEN CsvValueOf(Strip(h))
  ELSE IF Strip(h) \in CsvValues THEN Strip(h) ELSE ""

RECURSIVE RowsBefore(_, _)
RowsBefore(files, i) == IF i <= 1 THEN 0 ELSE RowsBefore(files, i - 1) + Len(files[i - 1].rows)

\* C2: after an upload that completed successfully, row 1 of 'Open SO' holds
\* canonical field names only, the rows below it are the rows of the uploaded
\* files in upload order (each cell under the name its column is kept under,
\* blank where the file has no such column), and every other cell is blank:
\* nothing of the previous content remains.
C2_UploadOverwrites ==
  \A s \in Sessions :
    (run[s].op = "upload" /\ "success" \in msgs[s]) =>
      LET files == run[s].files
          total == RowsBefore(files, Len(files) + 1)
          width == IF openSO = <<>> THEN 0 ELSE Len(openSO[1])
          label(c) == LabelOf(openSO[1][c])
          \* column c is the nth column of the sheet that carries its label
          nth(c) == Cardinality({d \in 1..c : label(d) = label(c)})
          from(f, c) == SelectSeq([q \in 1..Len(f.header) |-> q],
                                  LAMBDA q : KeptLabel(f.header[q]) = label(c))
      IN /\ \A c \in 1..width : openSO[1][c].t = "label" /\ label(c) \in CsvValues
         /\ {label(c) : c \in 1..width}
              = UNION {{KeptLabel(files[i].header[q]) : q \in 1..Len(files[i].header)} :
                         i \in 1..Len(files)} \ {""}
         /\ \A i \in 1..Len(files) : \A j \in 1..Len(files[i].rows) : \A c \in 1..width :
              CellAt(openSO, 1 + RowsBefore(files, i) + j, c)
                = IF nth(c) <= Len(from(files[i], c))
                  THEN files[i].rows[j][from(files[i], c)[nth(c)]]
                  ELSE Blank
         /\ Len(openSO) <= 1 + total
         /\ \A r \in 1..Len(openSO) : Len(openSO[r]) <= width

\* C2 witness: two files uploaded over the sheet of an earlier, larger upload
C2_Witness ==
  /\ run[1].op = "upload" /\ "success" \in msgs[1]
  /\ run[1].files = <<FileCanonical, FilePadded>>
  /\ Len(openSO) = 4

\* C5: the columns kept by the rename / select step are exactly the canonical
\* names whose source header (stripped) is in the file, each at most once, in
\* CSV_MAP order, and every column whose header is no key of CSV_MAP is dropped.
C5_HeaderRenaming ==
  csv_kept # Nothing =>
    LET kept == csv_kept[1].columns
        stripped == [i \in 1..Len(csv_file.header) |-> Strip(csv_file.header[i])]
        MapIndex(v) == CHOOSE i \in 1..Len(CSV_MAP) : CSV_MAP[i][2] = v
    IN /\ Range(kept) = {CsvValueOf(k) : k \in CsvKeys \cap Range(stripped)}
       /\ ~HasDuplicates(kept)
       /\ \A i, j \in 1..Len(kept) : i < j => MapIndex(kept[i]) <= MapIndex(kept[j])
       /\ Len(kept) = Cardinality({i \in 1..Len(stripped) : stripped[i] \in CsvKeys})

C1_FailuresSurfaced ==
  \A s \in Sessions :
    (pc[s] = "idle" /\ run[s].op \in {"upload", "label", "batch", "slip", "pallet"}
       /\ run[s].failed)
      => ("error" \in msgs[s] /\ "exception" \notin msgs[s])

\* C3: when a packing slip generation has completed, the line block holds
\* exactly the lines of the table with a ship quantity above 0 (customer SKU,
\* vendor SKU, ordered qty, ship qty, truncated description), in table order
\* from row 19; each of these rows is visible, every row below them through
\* row 150 is hidden, and no other row of the block is filled.
C3_SlipBlock ==
  \A s \in Sessions :
    (pc[s] = "idle" /\ run[s].op = "slip" /\ ~run[s].failed
       /\ run[s].calls # <<>> /\ run[s].calls[Len(run[s].calls)] = "export") =>
      LET d == df[s]
          rows == OrderData(d, run[s].order)
          shipped == SelectSeq([i \in 1..Len(rows) |-> i],
                               LAMBDA i : ShipQty(d, rows, edits[s], i).v > 0)
          n == Len(shipped)
          line(i) == << S(Str(Get(d, rows[i], "customer_sku"))),
                        S(Str(Get(d, rows[i], "vendor_sku"))),
                        N(Get(d, rows[i], "ordered_qty").v),
                        N(ShipQty(d, rows, edits[s], i).v),
                        S(truncate_text(Get(d, rows[i], "description"), SlipDescLen)) >>
      IN /\ \A k \in 1..n :
              /\ (FirstLineRow + k - 1) \in DOMAIN slipBlock
              /\ slipBlock[FirstLineRow + k - 1] = line(shipped[k])
              /\ (FirstLineRow + k - 1) \notin slipHidden
         /\ \A r \in (FirstLineRow + n)..HideLastRow : r \in slipHidden
         /\ DOMAIN slipBlock \subseteq FirstLineRow..(FirstLineRow + n - 1)

\* C4: the dashboard table has exactly one row per distinct order number of the
\* loaded lines; its Items is the number of lines of that order and its Total
\* Qty the sum of their ordered quantities.
C4_OneRowPerOrder ==
  \A s \in Sessions :
    (pc[s] = "idle" /\ screen[s] = "dashboard" /\ ~IsEmpty(df[s])) =>
      LET d == df[s]
          table == Grouped(d)
          orders == {Get(d, d.rows[r], "order_num") : r \in 1..Len(d.rows)}
          of(o) == SelectSeq(d.rows, LAMBDA row : Get(d, row, "order_num") = o)
      IN /\ Len(table) = Cardinality(orders)
         /\ \A o \in orders :
              \E g \in 1..Len(table) :
                /\ table[g].order_num = o
                /\ table[g].Items = Len(of(o))
                /\ table[g].TotalQty = SumQty(d, of(o))

\* C7: in every document generation the export call is issued at most once,
\* and only right after the delay that follows the generation's template
\* writes: never before or without the write-then-delay steps.
C7_ExportAfterWriteAndDelay ==
  \A s \in Sessions :
    run[s].op \in {"label", "pallet", "slip"} =>
      LET calls == run[s].calls
          writes == {"batch_update", "batch_clear", "update", "set_rows_visibility"}
          exports == {i \in 1..Len(calls) : calls[i] = "export"}
      IN /\ Cardinality(exports) <= 1
         /\ \A i \in exports :
              /\ i > 2
              /\ calls[i - 1] = "sleep"
              /\ calls[i - 2] \in writes
              /\ \A j \in 1..(i - 1) : calls[j] = "sleep" => j = i - 1

\* C8: the template is neither locked nor versioned.  While one session stands
\* between its write and its export, another session's write is not held back;
\* and the page an export returns is the content the shared 'ItemLabel'
\* worksheet has at that moment, whichever session wrote it.
C8_SharedTemplate ==
  /\ [](\A s, t \in Sessions :
          (s # t /\ pc[s] \in {"label_sleep", "label_export"} /\ pc[t] = "label_update")
            => ENABLED LabelUpdate(t, FALSE))
  /\ [][\A s \in Sessions :
          (pc[s] = "label_export" /\ pc'[s] = "idle" /\ ~run'[s].failed)
            => pdf_sku'[s][run[s].sku].pages = <<itemLabel>>]_vars

\* C8 witness: session 1 wrote its cells, session 2 wrote its own, session 1
\* exported: the label stored for session 1 carries session 2's fields.
C8_Witness ==
  /\ pc[1] = "idle" /\ run[1].op = "label" /\ ~run[1].failed
  /\ run[1].calls # <<>> /\ run[1].calls[Len(run[1].calls)] = "export"
  /\ run[2].op = "label"
  /\ pdf_sku[1][run[1].sku].pages = <<LabelCells(run[2].item_row, run[2].qty)>>
  /\ run[1].item_row.order_num # run[2].item_row.order_num

\* C9: the dashboard is rendered exactly when selected_order is None and the
\* detail otherwise, the detail only for an order with a line in the loaded
\* data; Back leaves selected_order None and the dashboard rendered; a click on
\* a dashboard row leaves selected_order the order number of that row.
C9_Router ==
  \A s \in Sessions :
    (pc[s] = "idle" /\ screen[s] \in {"dashboard", "detail", "exception"}) =>
      /\ (screen[s] = "dashboard") <=> (selected_order[s] = Nothing)
      /\ selected_order[s] # Nothing => screen[s] = "detail"
      /\ screen[s] = "detail" => OrderData(df[s], selected_order[s][1]) # <<>>
      /\ run[s].op = "back" => (selected_order[s] = Nothing /\ screen[s] = "dashboard")
      /\ (run[s].op = "select" /\ run[s].same)
           => selected_order[s] = Some(Str(run[s].clicked))

\* C10: a document offered for download in the detail view of an order (the
\* packing slip, the pallet label, the label of one of its SKUs) was generated
\* in the detail view of that order.
C10_PdfOfOrder ==
  \A s \in Sessions :
    (pc[s] = "idle" /\ screen[s] = "detail") =>
      LET d == df[s]
          order == selected_order[s][1]
          rows == OrderData(d, order)
          stop == LoopStop(d, rows, edits[s])
          shown == {i \in 1..Len(rows) : stop = 0 \/ i < stop}
      IN /\ (stop = 0 /\ ps_pdf[s] # Nothing) => ps_pdf[s][1].order = order
         /\ (stop = 0 /\ plt_pdf[s] # Nothing) => plt_pdf[s][1].order = order
         /\ \A i \in shown :
              LET sku == Str(Get(d, rows[i], "vendor_sku"))
              IN sku \in DOMAIN pdf_sku[s] => pdf_sku[s][sku].order = order

\* C11: a batch whose exports all succeeded holds exactly one label page per
\* line of the table with a ship quantity above 0, in table order; and each
\* label, of the batch or printed alone, carries the fields of its own line
\* (customer SKU, description, vendor SKU, PO number, order number, customer
\* name) and that line's ship quantity, also when two lines share a vendor SKU.
C11_LabelPerLine ==
  \A s \in Sessions :
    (pc[s] = "idle" /\ run[s].op \in {"batch", "label"} /\ ~run[s].failed
       /\ (run[s].op = "label" => run[s].calls # <<>>)) =>
      LET d == df[s]
          rows == OrderData(d, run[s].order)
          own(i) == LabelCells(AsRecord(d, rows[i]), ShipQty(d, rows, edits[s], i).v)
          shipped == SelectSeq([i \in 1..Len(rows) |-> i],
                               LAMBDA i : ShipQty(d, rows, edits[s], i).v > 0)
      IN IF run[s].op = "batch"
         THEN run[s].pages = [k \in 1..Len(shipped) |-> own(shipped[k])]
         ELSE pdf_sku[s][run[s].sku].pages = <<own(run[s].pos)>>

\* C12: the render of the Warehouse Ops screen that follows a successful
\* upload of the session shows the lines the worksheet now holds, the uploaded
\* ones, and not the frame read before the upload.
C12_RenderAfterUpload ==
  [][\A s \in Sessions :
       (pc[s] = "idle" /\ run[s].op = "upload" /\ "success" \in msgs[s]
          /\ run'[s].op # "upload" /\ screen'[s] \in {"dashboard", "detail", "exception"})
         => df'[s] = GetAllRecords(openSO)]_vars

====
